---- MODULE Spec2Model ----
(***************************************************************************)
(* A model of AMADEUS: logic.py (Literal, Clause, Rule),                   *)
(* knowledgebase.py (KnowledgeBase, PrologString, Case) and                *)
(* argumentation.py (Case).                                                *)
(*                                                                         *)
(* Python values are modelled as follows.                                  *)
(*   str        a sequence of one-character strings, <<"~", "a">>          *)
(*   bool       the strings "True" and "False"                             *)
(*   a bound method object        the string "bound_method"                *)
(*   an exception                 the name of its class, "TypeError"       *)
(*   an attribute never assigned  the string "unset"                       *)
(*   Literal    [atom |-> str, is_positive |-> BOOLEAN]                    *)
(*   Clause     [kind |-> "Clause", literals |-> set of Literal]           *)
(*   Rule       [kind |-> "Rule", head |-> Literal, body |-> set]          *)
(*   dict       a sequence of [key, value] records (insertion order)       *)
(* The iteration order of a Python set depends on the hash seed of the     *)
(* process, so every loop over a set is a nondeterministic choice.         *)
(* The atoms alpha, beta, gamma of the demonstration in knowledgebase.py   *)
(* are written a, b, c.                                                    *)
(***************************************************************************)
EXTENDS Integers, Sequences, FiniteSets, TLC

\* ------------------------------------------------------------------ bounds
\* Largest number of statements in one input (text or values).
MaxStmts == 4

\* The number of statements of a knowledge base that two threads query, or
\* that a second knowledge base is built beside.
MaxCoreStmts == 2

\* The number of literals of a clause or of a rule's body that is printed and
\* parsed again.
MaxLiterals == 2

\* The number of clauses of a second knowledge base.
MaxSecond == 2

\* The number of calls each thread makes.
MaxCalls == 1

\* ------------------------------------------------------------ str helpers
\* The characters str.strip() removes: the 29 characters below U+3001 for
\* which str.isspace() holds.  A string is a sequence of characters; one
\* from U+2000 on, which no string literal can hold, is written by its
\* Python escape.
Whitespace ==
    {"\t", "\n", "\f", "\r", " ",
     "", "", "", "", "", "", " ", " ",
     "\\u2000", "\\u2001", "\\u2002", "\\u2003", "\\u2004", "\\u2005", "\\u2006", "\\u2007",
     "\\u2008", "\\u2009", "\\u200a", "\\u2028", "\\u2029", "\\u202f", "\\u205f", "\\u3000"}

RECURSIVE LStrip(_)
LStrip(s) ==
    IF s # <<>> /\ Head(s) \in Whitespace THEN LStrip(Tail(s)) ELSE s

RECURSIVE RStrip(_)
RStrip(s) ==
    IF s # <<>> /\ s[Len(s)] \in Whitespace
    THEN RStrip(SubSeq(s, 1, Len(s) - 1)) ELSE s

\* str.strip()
Strip(s) == RStrip(LStrip(s))

StartsWith(s, sep) == Len(s) >= Len(sep) /\ SubSeq(s, 1, Len(sep)) = sep

\* sep in s
Contains(s, sep) ==
    \E i \in 1..Len(s) : StartsWith(SubSeq(s, i, Len(s)), sep)

RECURSIVE SplitFrom(_, _, _)
SplitFrom(s, sep, cur) ==
    IF s = <<>> THEN <<cur>>
    ELSE IF StartsWith(s, sep)
         THEN <<cur>> \o SplitFrom(SubSeq(s, Len(sep) + 1, Len(s)), sep, <<>>)
         ELSE SplitFrom(Tail(s), sep, Append(cur, Head(s)))

\* s.split(sep): the pieces of s between the occurrences of sep, left to right
Split(s, sep) == SplitFrom(s, sep, <<>>)

RECURSIVE Join(_, _)
\* sep.join(parts)
Join(parts, sep) ==
    IF parts = <<>> THEN <<>>
    ELSE IF Len(parts) = 1 THEN parts[1]
    ELSE parts[1] \o sep \o Join(Tail(parts), sep)

\* The strings s < t in Python's order, for the characters used here.
CharRank(ch) ==
    CASE ch = " " -> 1 [] ch = "," -> 2 [] ch = "-" -> 3 [] ch = "." -> 4
      [] ch = "1" -> 5 [] ch = ":" -> 6 [] ch = "_" -> 7 [] ch = "a" -> 8
      [] ch = "b" -> 9 [] ch = "c" -> 10 [] ch = "~" -> 11 [] OTHER -> 0

RECURSIVE StrLess(_, _)
StrLess(s, t) ==
    IF t = <<>> THEN FALSE
    ELSE IF s = <<>> THEN TRUE
    ELSE IF Head(s) = Head(t) THEN StrLess(Tail(s), Tail(t))
    ELSE CharRank(Head(s)) < CharRank(Head(t))

\* ------------------------------------------------------------- logic.py
\* Literal.__init__: no check of atom; is_positive defaults to True.
Literal(atom, is_positive) == [atom |-> atom, is_positive |-> is_positive]

\* An object as isinstance sees it: its class and its value.
Object(class, value) == [class |-> class, value |-> value]

\* Literal.is_negation_of: other.is_positive is a property, so
\* other.is_positive() calls the bool it returns; "and" evaluates it only
\* when the atoms are equal.
IsNegationOf(self, other) ==
    IF other.class = "Literal"
    THEN IF self.atom = other.value.atom
         THEN [value |-> "none", err |-> "TypeError"]
         ELSE [value |-> "False", err |-> "none"]
    ELSE [value |-> "False", err |-> "none"]

\* Literal.__str__ without the sign of a negative literal.
LiteralStrUnsigned(l) == l.atom

\* Literal.__str__
LiteralStr(l) == IF ~l.is_positive THEN <<"~">> \o l.atom ELSE l.atom

\* Clause.__init__: a frozenset of the literals; no check that it is non-empty.
Clause(literals) == [kind |-> "Clause", literals |-> literals]

\* Rule.__init__: head and frozenset(body); no check that body is non-empty.
Rule(head, body) == [kind |-> "Rule", head |-> head, body |-> body]

\* All orders in which a loop can visit the elements of a set.
Orders(S) ==
    {f \in [1..Cardinality(S) -> S] : \A i, j \in DOMAIN f : i # j => f[i] # f[j]}

\* sorted(list(literals), key=str)
SortedByStr(S) ==
    CHOOSE f \in Orders(S) :
        \A i, j \in DOMAIN f : i < j => StrLess(LiteralStr(f[i]), LiteralStr(f[j]))

\* Clause.__str__: the literals sorted by their text, joined by ", ", then "."
ClauseStr(c) ==
    Join([i \in 1..Cardinality(c.literals) |->
             LiteralStr(SortedByStr(c.literals)[i])], <<",", " ">>) \o <<".">>

\* Rule.__str__: the body is printed in the iteration order of a frozenset,
\* so one rule has one text per order.
RuleStrs(r) ==
    {LiteralStr(r.head) \o <<":", "-", " ">>
        \o Join([i \in DOMAIN f |-> LiteralStr(f[i])], <<",", " ">>) \o <<".">>
     : f \in Orders(r.body)}

\* -------------------------------------------------------------- dict
\* key in d
DictHas(d, k) == \E i \in DOMAIN d : d[i].key = k

\* d[key]
DictGet(d, k) == d[CHOOSE i \in DOMAIN d : d[i].key = k].value

\* d[key] = value: a new key goes last, a known key keeps its place
DictSet(d, k, v) ==
    IF DictHas(d, k)
    THEN [i \in DOMAIN d |-> IF d[i].key = k THEN [key |-> k, value |-> v] ELSE d[i]]
    ELSE Append(d, [key |-> k, value |-> v])

DictKeys(d) == {d[i].key : i \in DOMAIN d}

DictValues(d) == {d[i].value : i \in DOMAIN d}

\* ------------------------------------------- knowledgebase.py, PrologString
\* The parser threads self._literals through its methods; each operator
\* returns the dictionary it leaves, the value it returns and the exception
\* it raises ("none" when it returns).

\* PrologString._parse_literal
ParseLiteral(literals, s0) ==
    LET s == Strip(s0) IN
    IF DictHas(literals, s)
    THEN [literals |-> literals, value |-> DictGet(literals, s), err |-> "none"]
    ELSE IF s = <<>>
    THEN [literals |-> literals, value |-> Literal(<<>>, TRUE), err |-> "IndexError"]
    ELSE LET literal == IF s[1] = "~" THEN Literal(Tail(s), FALSE)
                                      ELSE Literal(s, TRUE)
         IN [literals |-> DictSet(literals, s, literal), value |-> literal,
             err |-> "none"]

RECURSIVE ParseLiteralsFrom(_, _, _)
ParseLiteralsFrom(literals, parts, acc) ==
    IF parts = <<>> THEN [literals |-> literals, value |-> acc, err |-> "none"]
    ELSE LET l == Strip(Head(parts)) IN
         IF l = <<>> THEN ParseLiteralsFrom(literals, Tail(parts), acc)
         ELSE LET r == ParseLiteral(literals, l) IN
              IF r.err # "none" THEN [literals |-> r.literals, value |-> acc, err |-> r.err]
              ELSE ParseLiteralsFrom(r.literals, Tail(parts), acc \cup {r.value})

\* PrologString._parse_literals
ParseLiterals(literals, s) == ParseLiteralsFrom(literals, Split(s, <<",">>), {})

\* PrologString._parse_clause
ParseClause(literals, s) ==
    LET r == ParseLiterals(literals, s) IN
    [literals |-> r.literals, value |-> Clause(r.value), err |-> r.err]

\* PrologString._parse_rule
ParseRule(literals, s) ==
    LET parts == Split(s, <<":", "-">>) IN
    IF Len(parts) # 2
    THEN [literals |-> literals, value |-> Clause({}), err |-> "ValueError"]
    ELSE LET h == ParseLiteral(literals, Strip(parts[1])) IN
         IF h.err # "none"
         THEN [literals |-> h.literals, value |-> Clause({}), err |-> h.err]
         ELSE LET b == ParseLiterals(h.literals, Strip(parts[2])) IN
              [literals |-> b.literals, value |-> Rule(h.value, b.value), err |-> b.err]

RECURSIVE ParseFrom(_, _, _)
ParseFrom(literals, stmts, contents) ==
    IF stmts = <<>>
    THEN [literals |-> literals, contents |-> contents, err |-> "none"]
    ELSE LET p == Strip(Head(stmts)) IN
         IF p = <<>> THEN ParseFrom(literals, Tail(stmts), contents)
         ELSE LET r == IF Contains(p, <<":", "-">>) THEN ParseRule(literals, p)
                                                    ELSE ParseClause(literals, p)
              IN IF r.err # "none"
                 THEN [literals |-> r.literals, contents |-> contents, err |-> r.err]
                 ELSE ParseFrom(r.literals, Tail(stmts), contents \cup {r.value})

\* PrologString.__init__ and _parse: the text is split at ".", and every
\* non-blank piece is a rule when it contains ":-" and a clause otherwise.
\* (The text is taken as text: no file of that name exists.)
PrologString(s) == ParseFrom(<<>>, Split(s, <<".">>), {})

\* ------------------------------------------------------------------ inputs
\* The statements the texts are made of, in prolog syntax. The first four are
\* the demonstration of knowledgebase.py (alpha, beta, gamma as a, b, c); the
\* others add a dependency cycle (with "b:- a."), a rule with two antecedents,
\* a rule without antecedents, a negative literal and two statements the
\* parser rejects.
StmtPool ==
    << <<"b", ".">>,
       <<"a", ",", " ", "b", ".">>,
       <<"b", ":", "-", " ", "a", ".">>,
       <<"c", ":", "-", " ", "b", ".">>,
       <<"a", ":", "-", " ", "b", ".">>,
       <<"c", ":", "-", " ", "a", ",", " ", "b", ".">>,
       <<"a", " ", ":", "-", " ", ".">>,
       <<"~", "a", ".">>,
       <<":", "-", " ", "a", ".">>,
       <<"a", ":", "-", " ", "b", ":", "-", " ", "c", ".">> >>

\* Selections of at most MaxStmts statements, in the order of the pool or in
\* the reverse order.
StmtSeqs ==
    UNION {{f \in [1..n -> DOMAIN StmtPool] :
               \/ \A i, j \in 1..n : i < j => f[i] < f[j]
               \/ \A i, j \in 1..n : i < j => f[i] > f[j]} : n \in 0..MaxStmts}

\* The text of a selection: its statements separated by a blank.
TextOf(f) == Join([i \in DOMAIN f |-> StmtPool[f[i]]], <<" ">>)

TextInputs == {TextOf(f) : f \in StmtSeqs}

La == Literal(<<"a">>, TRUE)
Lb == Literal(<<"b">>, TRUE)
Lc == Literal(<<"c">>, TRUE)
Lna == Literal(<<"a">>, FALSE)

\* The Clause and Rule values the value inputs are made of. The last is
\* Clause(Literal("~a")): Literal.__init__ takes any str for an atom, and str()
\* of this positive literal is the str() of Literal("a", False).
ValuePool ==
    << Clause({Lb}), Clause({La, Lb}), Clause({Lna}),
       Rule(Lb, {La}), Rule(La, {}), Clause({Literal(<<"~", "a">>, TRUE)}) >>

\* *contents: at most MaxStmts distinct values of the pool, in any order.
ValueInputs ==
    UNION {{[i \in 1..n |-> ValuePool[f[i]]] :
               f \in {g \in [1..n -> DOMAIN ValuePool] :
                         \A i, j \in 1..n : i # j => g[i] # g[j]}}
           : n \in 0..MaxStmts}

\* ------------------------------------------- knowledgebase.py, KnowledgeBase
\* The Literal object with the atom and the sign of l that the caller passed in
\* contents[i]; with i = 0 the one object PrologString._parse_literal makes for
\* a text that is not yet a key.
Instance(l, i) == [atom |-> l.atom, is_positive |-> l.is_positive, of |-> i]

\* The value of a Literal object: what __eq__ and __hash__ look at.
ValueOf(o) == Literal(o.atom, o.is_positive)

\* *contents as objects: the literals of different contents are different
\* objects, also when they are equal.
InstancesOf(contents) ==
    [i \in DOMAIN contents |->
        IF contents[i].kind = "Clause"
        THEN Clause({Instance(l, i) : l \in contents[i].literals})
        ELSE contents[i]]

\* KnowledgeBase._consolidate_literal: l is a value or an object, str(l) is
\* taken of its atom and sign.
ConsolidateLiteral(literals, l) ==
    IF ~DictHas(literals, LiteralStr(l))
    THEN [literals |-> DictSet(literals, LiteralStr(l), l), value |-> l]
    ELSE [literals |-> literals, value |-> DictGet(literals, LiteralStr(l))]

RECURSIVE ConsolidateInOrder(_, _, _)
ConsolidateInOrder(literals, order, acc) ==
    IF order = <<>> THEN [literals |-> literals, value |-> acc]
    ELSE LET r == ConsolidateLiteral(literals, Head(order)) IN
         ConsolidateInOrder(r.literals, Tail(order), acc \cup {r.value})

\* KnowledgeBase._consolidate_literals: the results for every order in which
\* the comprehension can visit the set.
ConsolidateLiterals(literals, S) ==
    {ConsolidateInOrder(literals, f, {}) : f \in Orders(S)}

RECURSIVE FromValues(_, _, _)
\* KnowledgeBase.__init__, the branch for Clause and Rule values: the set of
\* outcomes of the loop over contents. A Rule reaches self._rules.add(head,
\* body), a call of set.add with two arguments, which raises TypeError.
FromValues(literals, contents, clauses) ==
    IF contents = <<>>
    THEN {[literals |-> literals, clauses |-> clauses, rules |-> {}, err |-> "none"]}
    ELSE LET content == Head(contents) IN
         IF content.kind = "Clause"
         THEN UNION {FromValues(r.literals, Tail(contents),
                                clauses \cup {Clause(r.value)})
                     : r \in ConsolidateLiterals(literals, content.literals)}
         ELSE {[literals |-> <<>>, clauses |-> {}, rules |-> {}, err |-> "TypeError"]}

\* The state the values branch leaves, run on the objects of the caller: the
\* registry and the clauses by value, the object registered under each key, and
\* the object each clause holds for each of its literals.
WithInstances(out) ==
    IF out.err # "none"
    THEN [literals |-> <<>>, clauses |-> {}, rules |-> {}, err |-> out.err,
          registered |-> <<>>, held |-> {}]
    ELSE [literals |-> [i \in DOMAIN out.literals |->
                          [key |-> out.literals[i].key,
                           value |-> ValueOf(out.literals[i].value)]],
          clauses |-> {Clause({ValueOf(o) : o \in c.literals}) : c \in out.clauses},
          rules |-> {},
          err |-> "none",
          registered |-> out.literals,
          held |-> UNION {{[holder |-> Clause({ValueOf(x) : x \in c.literals}),
                            object |-> o] : o \in c.literals}
                          : c \in out.clauses}]

\* The literals of a Clause or a Rule value.
LiteralsOf(c) == IF c.kind = "Clause" THEN c.literals ELSE {c.head} \cup c.body

\* KnowledgeBase.__init__, the branch for a text. Every literal of the contents
\* is the object _parse_literal returned, self._literals[s] for its text s, and
\* s is str() of that object.
FromText(s) ==
    LET ps == PrologString(s) IN
    IF ps.err # "none"
    THEN [literals |-> <<>>, clauses |-> {}, rules |-> {}, err |-> ps.err,
          registered |-> <<>>, held |-> {}]
    ELSE [literals |-> ps.literals,
          clauses |-> {c \in ps.contents : c.kind = "Clause"},
          rules |-> {c \in ps.contents : c.kind = "Rule"},
          err |-> "none",
          registered |-> [i \in DOMAIN ps.literals |->
                            [key |-> ps.literals[i].key,
                             value |-> Instance(ps.literals[i].value, 0)]],
          held |-> UNION {{[holder |-> c,
                            object |-> Instance(DictGet(ps.literals, LiteralStr(l)), 0)]
                           : l \in LiteralsOf(c)}
                          : c \in ps.contents}]

\* dict.values(), in insertion order
ValuesInOrder(d) == [i \in DOMAIN d |-> d[i].value]

RECURSIVE AssertingClausesOver(_, _, _)
\* {str(l) : set([clause for clause in self.clauses if l in clause.literals])
\*  for l in literals}
AssertingClausesOver(cls, order, acc) ==
    IF order = <<>> THEN acc
    ELSE LET l == Head(order) IN
         AssertingClausesOver(cls, Tail(order),
             DictSet(acc, LiteralStr(l), {clause \in cls : l \in clause.literals}))

\* KnowledgeBase._get_asserting_clauses
GetAssertingClauses(cls, lits) == AssertingClausesOver(cls, ValuesInOrder(lits), <<>>)

RECURSIVE AssertingRulesOver(_, _, _)
\* {str(l) : set([rule for rule in self.rules if l == rule.head])
\*  for l in literals}
AssertingRulesOver(rls, order, acc) ==
    IF order = <<>> THEN acc
    ELSE LET l == Head(order) IN
         AssertingRulesOver(rls, Tail(order),
             DictSet(acc, LiteralStr(l), {rule \in rls : l = rule.head}))

\* _get_asserting_rules selecting the rules that use l, not the rules that
\* assert it: "if l in rule.body" for "if l == rule.head".
GetAssertingRulesByBody(rls, lits) ==
    [i \in DOMAIN lits |->
        [key |-> LiteralStr(lits[i].value),
         value |-> {rule \in rls : lits[i].value \in rule.body}]]

\* KnowledgeBase._get_asserting_rules
GetAssertingRules(rls, lits) == AssertingRulesOver(rls, ValuesInOrder(lits), <<>>)

\* knowledgebase.py, Case.__init__: the claim, the knowledge base and two
\* empty sets; no _supported attribute yet.
Case(literal, knowledgebase) ==
    [claim |-> literal, kb |-> knowledgebase, support_clauses |-> {},
     support_rules |-> {}, supported |-> "unset"]

\* ------------------------------------------------------------------- state
VARIABLES
    phase,              \* "new", then "built" or "failed" (the constructor raised)
    input,              \* the argument of the constructor
    literals,           \* KnowledgeBase._literals: str(l) -> canonical Literal
    clauses,            \* KnowledgeBase._clauses
    rules,              \* KnowledgeBase._rules
    asserting_clauses,  \* KnowledgeBase._asserting_clauses
    asserting_rules,    \* KnowledgeBase._asserting_rules
    lit_case,           \* Literal._case of the canonical literals, by key;
                        \* a literal without the attribute is not in the domain
    lit_supported,      \* Literal._supported of the canonical literals, by key
    rule_supported,     \* Rule._supported of the rules of the knowledge base
    result,             \* the last operation, what it returned or raised
    callers,            \* the threads inside an is_supported call: the statement
                        \* each is at and its local variables
    second,             \* a second KnowledgeBase made of values of the first
    arg_case,           \* an argumentation.Case the threads share: the literal
                        \* it is for, _supporting_rules and _entailed
    instances           \* the Literal objects behind the values: the object
                        \* registered under each key, and the object each
                        \* clause and rule holds for each of its literals

vars == <<phase, input, literals, clauses, rules, asserting_clauses,
          asserting_rules, lit_case, lit_supported, rule_supported, result,
          callers, second, arg_case, instances>>

\* The attributes the queries read and write.
Heap == [lit_case |-> lit_case, lit_supported |-> lit_supported,
         rule_supported |-> rule_supported]

\* bool(v)
Truthy(v) == v \in {"True", "bound_method"}

\* An attribute of an object addressed by id; "unset" without the object.
Attr(f, id) == IF id \in DOMAIN f THEN f[id] ELSE "unset"

Returned(h, v) == [h |-> h, value |-> v, err |-> "none"]

Raised(h, e) == [h |-> h, value |-> "none", err |-> e]

\* setattr(object, attribute, v) for the object addressed by id
SetAttr(f, id, v) == [x \in DOMAIN f \cup {id} |-> IF x = id THEN v ELSE f[x]]

\* ------------------------------------------------- logic.py, the properties
\* Literal.case, the getter: self._case, AttributeError without the attribute
LiteralCase(cases, id) ==
    IF id \in DOMAIN cases THEN [value |-> cases[id], err |-> "none"]
    ELSE [value |-> "none", err |-> "AttributeError"]

\* A setter of Literal.case without the test hasattr(self, "_case"): every
\* assignment is stored.
LiteralSetCaseAgain(cases, id, case) ==
    [lit_case |-> SetAttr(cases, id, case), err |-> "none"]

\* Literal.case, the setter: the first value is stored, a later assignment
\* raises AttributeError.
LiteralSetCase(cases, id, case) ==
    IF id \notin DOMAIN cases
    THEN [lit_case |-> SetAttr(cases, id, case), err |-> "none"]
    ELSE [lit_case |-> cases, err |-> "AttributeError"]

\* Literal.is_supported caching True, as if the case had been evaluated, while
\* returning self.case.is_supported.
LiteralIsSupportedCachesTrue(h, k) ==
    IF Attr(h.lit_supported, k) # "unset" THEN Returned(h, h.lit_supported[k])
    ELSE IF k \notin DOMAIN h.lit_case THEN Raised(h, "AttributeError")
    ELSE Returned([h EXCEPT !.lit_supported = SetAttr(@, k, "True")], "bound_method")

\* Literal.is_supported (a property): the cached value, or else
\* self.case.is_supported, which for the Case of knowledgebase.py is the
\* bound method itself, not its result. Reading self.case of a literal without
\* a case raises AttributeError.
LiteralIsSupported(h, k) ==
    IF Attr(h.lit_supported, k) # "unset" THEN Returned(h, h.lit_supported[k])
    ELSE IF k \notin DOMAIN h.lit_case THEN Raised(h, "AttributeError")
    ELSE Returned([h EXCEPT !.lit_supported = SetAttr(@, k, "bound_method")],
                  "bound_method")

RECURSIVE BodyLoop(_, _, _)
\* Rule.is_supported, the loop over self.body
BodyLoop(h, order, supported) ==
    IF order = <<>> THEN Returned(h, supported)
    ELSE LET o == LiteralIsSupported(h, LiteralStr(Head(order))) IN
         IF o.err # "none" THEN o
         ELSE BodyLoop(o.h, Tail(order),
                       IF ~Truthy(o.value) THEN "False" ELSE supported)

\* Rule.is_supported (a property): the outcomes for every order of the body
RuleIsSupported(h, r) ==
    IF h.rule_supported[r] # "unset" THEN {Returned(h, h.rule_supported[r])}
    ELSE {LET o == BodyLoop(h, f, "True") IN
          IF o.err # "none" THEN o
          ELSE Returned([o.h EXCEPT !.rule_supported[r] = o.value], o.value)
          : f \in Orders(r.body)}

\* v(): calling a bool raises TypeError ('bool' object is not callable).
CallBool(v) == "TypeError"

\* ---------------------------------------------------- knowledgebase.py, Case
RECURSIVE RulesLoop(_, _, _, _, _)
\* Case.is_supported, the loop over the asserting rules and the end of the
\* method. r.is_supported is a property, so r.is_supported() calls the bool
\* it returns.
RulesLoop(h, k, order, supported, support_rules) ==
    IF order = <<>>
    THEN {Returned([h EXCEPT !.lit_case[k].support_rules = support_rules,
                             !.lit_case[k].supported = supported], supported)}
    ELSE UNION {IF o.err # "none"
                THEN {Raised([o.h EXCEPT !.lit_case[k].support_rules = support_rules],
                             o.err)}
                ELSE {Raised([o.h EXCEPT !.lit_case[k].support_rules = support_rules],
                             CallBool(o.value))}
                : o \in RuleIsSupported(h, Head(order))}

\* Case.is_supported (a method) of the case of the literal under key k
CaseIsSupported(h, k) ==
    LET c == h.lit_case[k] IN
    IF c.supported # "unset" THEN {Returned(h, c.supported)}
    ELSE LET support_clauses == DictGet(asserting_clauses, LiteralStr(c.claim))
             h1 == [h EXCEPT !.lit_case[k].support_clauses = support_clauses]
         IN UNION {RulesLoop(h1, k, f,
                             IF Cardinality(support_clauses) # 0 THEN "True" ELSE "False",
                             {})
                   : f \in Orders(DictGet(asserting_rules, LiteralStr(c.claim)))}

\* l.is_supported(): the property, then a call of the value it returned
LiteralIsSupportedCall(h, k) ==
    LET o == LiteralIsSupported(h, k) IN
    IF o.err # "none" THEN {o}
    ELSE IF o.value = "bound_method" THEN CaseIsSupported(o.h, k)
    ELSE {Raised(o.h, CallBool(o.value))}

RECURSIVE PopulateFrom(_, _)
\* KnowledgeBase.populate: l.is_supported() for every literal of the
\* dictionary, in its order; the first exception ends the loop.
PopulateFrom(h, order) ==
    IF order = <<>> THEN {Returned(h, "None")}
    ELSE UNION {IF o.err # "none" THEN {o} ELSE PopulateFrom(o.h, Tail(order))
                : o \in LiteralIsSupportedCall(h, LiteralStr(Head(order)))}

\* ----------------------------------------------------------------- actions
NoResult == [op |-> "none", arg |-> <<>>, value |-> "none", err |-> "none"]

\* The id of a Literal the caller has constructed and given to no knowledge
\* base: an object with neither _case nor _supported.
FreshId == <<"Literal()">>

\* The threads that call l.is_supported() on the knowledge base.
Callers == {1, 2}

\* A thread outside every call: no statement, no local variable.
Idle ==
    [pc |-> "idle", calls |-> 0, op |-> "none", k |-> <<>>, lit |-> <<>>, ctx |-> "none",
     val |-> "none",
     supported |-> "none", order |-> <<>>, r |-> "none", body |-> <<>>,
     rule_supported |-> "none", frozen |-> <<>>, loaded |-> <<>>, value |-> "none",
     rules |-> {}, err |-> "none"]

\* No second knowledge base was constructed.
NoSecond == [phase |-> "new", reuse |-> FALSE, contents |-> <<>>, literals |-> <<>>,
             ids |-> <<>>, clauses |-> {}]

\* No argumentation.Case was constructed for the threads. Of a Case that was,
\* kind tells what self._supporting_rules is: "unset" without the attribute,
\* "set" for a set that is_entailed fills, "frozenset" for a final value.
\* supporting_rules are the members of the object the attribute holds now. A
\* set is an object of its own: obj is the set the attribute holds, and sets
\* has the members of every set() made so far, held by the attribute or not.
NoArgCase ==
    [made |-> FALSE, k |-> <<>>, kind |-> "unset", obj |-> <<>>, sets |-> <<>>,
     supporting_rules |-> {}, entailed |-> "unset"]

Init ==
    /\ phase = "new"
    /\ input = [kind |-> "none", arg |-> <<>>]
    /\ literals = <<>>
    /\ clauses = {}
    /\ rules = {}
    /\ asserting_clauses = <<>>
    /\ asserting_rules = <<>>
    /\ lit_case = <<>>
    /\ lit_supported = <<>>
    /\ rule_supported = <<>>
    /\ result = NoResult
    /\ callers = [t \in Callers |-> Idle]
    /\ second = NoSecond
    /\ arg_case = NoArgCase
    /\ instances = [registered |-> <<>>, held |-> {}]

RECURSIVE GenerateCasesFrom(_, _, _, _)
\* for l in literals: l.case = Case(l, self); ids are the objects the
\* literals of order are. The first setter that raises ends the loop.
GenerateCasesFrom(cases, order, ids, knowledgebase) ==
    IF order = <<>> THEN [lit_case |-> cases, err |-> "none"]
    ELSE LET o == LiteralSetCase(cases, Head(ids), Case(Head(order), knowledgebase))
         IN IF o.err # "none" THEN o
            ELSE GenerateCasesFrom(o.lit_case, Tail(order), Tail(ids), knowledgebase)

\* KnowledgeBase._generate_supporting_cases for the first knowledge base, the
\* one called "KB": its literals are the objects addressed by their keys, and
\* none of them has a case yet.
GenerateSupportingCases(cases, lits) ==
    GenerateCasesFrom(cases, ValuesInOrder(lits),
                      [i \in DOMAIN lits |-> lits[i].key], "KB").lit_case

\* KnowledgeBase.__init__ after the contents are read: the frozensets, the two
\* indices and the cases. When reading the contents raised, the constructor
\* raises and there is no knowledge base.
Built(in, out) ==
    /\ input' = in
    /\ UNCHANGED <<callers, second, arg_case>>
    /\ IF out.err # "none"
       THEN /\ phase' = "failed"
            /\ result' = [op |-> "KnowledgeBase", arg |-> <<>>, value |-> "none",
                          err |-> out.err]
            /\ UNCHANGED <<literals, clauses, rules, asserting_clauses,
                           asserting_rules, lit_case, lit_supported, rule_supported,
                           instances>>
       ELSE /\ phase' = "built"
            /\ result' = [op |-> "KnowledgeBase", arg |-> <<>>, value |-> "KB",
                          err |-> "none"]
            /\ literals' = out.literals
            /\ clauses' = out.clauses
            /\ rules' = out.rules
            /\ asserting_clauses' = GetAssertingClauses(out.clauses, out.literals)
            /\ asserting_rules' = GetAssertingRules(out.rules, out.literals)
            /\ lit_case' = GenerateSupportingCases(lit_case, out.literals)
            /\ lit_supported' = [k \in DictKeys(out.literals) |-> "unset"]
            /\ rule_supported' = [r \in out.rules |-> "unset"]
            /\ instances' = [registered |-> out.registered, held |-> out.held]

\* KnowledgeBase(text)
ConstructFromText ==
    /\ phase = "new"
    /\ \E s \in TextInputs : Built([kind |-> "text", arg |-> s], FromText(s))

\* KnowledgeBase(*contents) with Clause and Rule values
ConstructFromValues ==
    /\ phase = "new"
    /\ \E contents \in ValueInputs :
         \E out \in FromValues(<<>>, InstancesOf(contents), {}) :
            Built([kind |-> "values", arg |-> contents], WithInstances(out))

\* The end of a query: the attributes it wrote and what it gave the caller.
Finish(op, arg, o) ==
    /\ lit_case' = o.h.lit_case
    /\ lit_supported' = o.h.lit_supported
    /\ rule_supported' = o.h.rule_supported
    /\ result' = [op |-> op, arg |-> arg, value |-> o.value, err |-> o.err]
    /\ UNCHANGED <<phase, input, literals, clauses, rules, asserting_clauses,
                   asserting_rules, callers, second, arg_case,
                   instances>>

\* l.is_supported for a literal l of the knowledge base
QueryLiteral ==
    /\ phase = "built"
    /\ \E k \in DictKeys(literals) :
         Finish("l.is_supported", k, LiteralIsSupported(Heap, k))

\* l.is_supported() for a literal l of the knowledge base, as populate calls it
QueryLiteralCall ==
    /\ phase = "built"
    /\ \E k \in DictKeys(literals) :
         \E o \in LiteralIsSupportedCall(Heap, k) : Finish("l.is_supported()", k, o)

\* l.case.is_supported() for a literal l of the knowledge base: the getter of
\* Literal.case, then the method of the Case, without the property
\* Literal.is_supported and so without a write to l._supported.
QueryCaseCall ==
    /\ phase = "built"
    /\ \E k \in DictKeys(literals) :
         LET c == LiteralCase(lit_case, k) IN
         IF c.err # "none"
         THEN Finish("l.case.is_supported()", k, Raised(Heap, c.err))
         ELSE \E o \in CaseIsSupported(Heap, k) :
                 Finish("l.case.is_supported()", k, o)

\* r.is_supported for a rule r of the knowledge base
QueryRule ==
    /\ phase = "built"
    /\ \E r \in rules :
         \E o \in RuleIsSupported(Heap, r) : Finish("r.is_supported", r, o)

\* KnowledgeBase.populate()
Populate ==
    /\ phase = "built"
    /\ \E o \in PopulateFrom(Heap, ValuesInOrder(literals)) :
         Finish("populate", <<>>, o)

\* l.is_supported for a Literal that is in no knowledge base
QueryFresh ==
    /\ phase = "built"
    /\ Finish("Literal().is_supported", FreshId, LiteralIsSupported(Heap, FreshId))

Next ==
    \/ ConstructFromText
    \/ ConstructFromValues
    \/ QueryLiteral
    \/ QueryLiteralCall
    \/ QueryCaseCall
    \/ QueryRule
    \/ Populate
    \/ QueryFresh

Spec == Init /\ [][Next]_vars

\* ------------------------------------------- l.is_supported(), by statement
\* The same code as LiteralIsSupportedCall, one statement at a time, for
\* threads that call it without synchronisation. A step reads or writes one
\* attribute; the local variables of a call are the thread's own.

\* The statements of the knowledge bases the threads query: a clause, a rule
\* on a literal of a clause, two rules with one head, a body of two.
CoreStmts == {1, 3, 4, 6}

\* At most MaxCoreStmts of them, in the order of the pool.
CoreInputs ==
    {TextOf(f) : f \in UNION {{g \in [1..n -> CoreStmts] :
                                  \A i, j \in 1..n : i < j => g[i] < g[j]}
                              : n \in 0..MaxCoreStmts}}

\* KnowledgeBase(text) with a text of these statements
ConstructCore ==
    /\ phase = "new"
    /\ \E s \in CoreInputs : Built([kind |-> "text", arg |-> s], FromText(s))

\* The properties of argumentation.Case the threads read.
ArgOps == {"c.is_entailed", "c.supporting_rules"}

\* Thread t is at statement pc of a call on the knowledge base.
At(t, pc) == phase = "built" /\ callers[t].pc = pc

\* Thread t goes on with the local variables c.
Local(t, c) ==
    /\ callers' = [callers EXCEPT ![t] = c]
    /\ UNCHANGED <<phase, input, literals, clauses, rules, asserting_clauses,
                   asserting_rules, result, second, arg_case,
                   instances>>

\* The call of thread c has ended: what it returned or raised.
Done(c, value, err) ==
    [Idle EXCEPT !.pc = "done", !.calls = c.calls, !.op = c.op, !.k = c.k,
                 !.value = value, !.err = err]

\* Thread t is outside every call and may make another one.
MayCall(t) ==
    /\ phase = "built"
    /\ callers[t].pc \in {"idle", "done"}
    /\ callers[t].calls < MaxCalls

\* The local variables of thread t when it enters call op for literal k.
Enter(t, pc, op, k) ==
    [Idle EXCEPT !.pc = pc, !.calls = callers[t].calls + 1, !.op = op, !.k = k]

\* A thread calls l.is_supported() for a literal of the knowledge base: the
\* property Literal.is_supported first.
CallerStart(t) ==
    /\ MayCall(t)
    /\ \E k \in DictKeys(literals) :
         Local(t, [Enter(t, "lit_has", "l.is_supported()", k) EXCEPT
                      !.lit = k, !.ctx = "call"])
    /\ UNCHANGED <<lit_case, lit_supported, rule_supported>>

\* A thread calls l.case.is_supported() for a literal of the knowledge base:
\* the getter of Literal.case, then the method of the Case.
CallerStartCase(t) ==
    /\ MayCall(t)
    /\ \E k \in DictKeys(literals) :
         LET c == Enter(t, "case_has", "l.case.is_supported()", k)
         IN Local(t, IF LiteralCase(lit_case, k).err # "none"
                     THEN Done(c, "none", LiteralCase(lit_case, k).err)
                     ELSE c)
    /\ UNCHANGED <<lit_case, lit_supported, rule_supported>>

\* Literal.is_supported: if hasattr(self, "_supported")
LiteralHasSupported(t) ==
    /\ At(t, "lit_has")
    /\ Local(t, [callers[t] EXCEPT !.pc =
                    IF Attr(lit_supported, callers[t].lit) # "unset"
                    THEN "lit_return" ELSE "lit_store"])
    /\ UNCHANGED <<lit_case, lit_supported, rule_supported>>

\* Literal.is_supported: self._supported = self.case.is_supported
LiteralStoreSupported(t) ==
    /\ At(t, "lit_store")
    /\ IF callers[t].lit \notin DOMAIN lit_case
       THEN /\ Local(t, Done(callers[t], "none", "AttributeError"))
            /\ UNCHANGED lit_supported
       ELSE /\ Local(t, [callers[t] EXCEPT !.pc = "lit_return"])
            /\ lit_supported' = SetAttr(lit_supported, callers[t].lit, "bound_method")
    /\ UNCHANGED <<lit_case, rule_supported>>

\* Literal.is_supported: return self._supported, to l.is_supported() or to
\* the loop of Rule.is_supported
LiteralReturnSupported(t) ==
    /\ At(t, "lit_return")
    /\ Local(t, [callers[t] EXCEPT
                    !.val = lit_supported[callers[t].lit],
                    !.pc = IF callers[t].ctx = "call" THEN "call" ELSE "rule_test"])
    /\ UNCHANGED <<lit_case, lit_supported, rule_supported>>

\* l.is_supported(): the call of what the property returned
CallSupported(t) ==
    /\ At(t, "call")
    /\ Local(t, IF callers[t].val = "bound_method"
                THEN [callers[t] EXCEPT !.pc = "case_has", !.val = "none",
                                        !.lit = <<>>, !.ctx = "none"]
                ELSE Done(callers[t], "none", CallBool(callers[t].val)))
    /\ UNCHANGED <<lit_case, lit_supported, rule_supported>>

\* Case.is_supported: if hasattr(self, "_supported")
CaseHasSupported(t) ==
    /\ At(t, "case_has")
    /\ Local(t, [callers[t] EXCEPT !.pc =
                    IF lit_case[callers[t].k].supported # "unset"
                    THEN "case_return" ELSE "case_clauses"])
    /\ UNCHANGED <<lit_case, lit_supported, rule_supported>>

\* Case.is_supported: supported = False;
\* self.support_clauses = self.kb._asserting_clauses[str(self.claim)]
CaseStoreClauses(t) ==
    /\ At(t, "case_clauses")
    /\ Local(t, [callers[t] EXCEPT !.pc = "case_len", !.supported = "False"])
    /\ lit_case' = [lit_case EXCEPT
                      ![callers[t].k].support_clauses =
                          DictGet(asserting_clauses, LiteralStr(lit_case[callers[t].k].claim))]
    /\ UNCHANGED <<lit_supported, rule_supported>>

\* Case.is_supported: if len(self.support_clauses) != 0: supported = True
CaseLenClauses(t) ==
    /\ At(t, "case_len")
    /\ Local(t, [callers[t] EXCEPT
                    !.pc = "case_rules",
                    !.supported =
                        IF Cardinality(lit_case[callers[t].k].support_clauses) # 0
                        THEN "True" ELSE callers[t].supported])
    /\ UNCHANGED <<lit_case, lit_supported, rule_supported>>

\* Case.is_supported: self.support_rules = set()
CaseResetRules(t) ==
    /\ At(t, "case_rules")
    /\ Local(t, [callers[t] EXCEPT !.pc = "case_iter"])
    /\ lit_case' = [lit_case EXCEPT ![callers[t].k].support_rules = {}]
    /\ UNCHANGED <<lit_supported, rule_supported>>

\* Case.is_supported: for r in self.kb._asserting_rules[str(self.claim)], the
\* order in which the set will be visited
CaseIterRules(t) ==
    /\ At(t, "case_iter")
    /\ \E f \in Orders(DictGet(asserting_rules,
                               LiteralStr(lit_case[callers[t].k].claim))) :
         Local(t, [callers[t] EXCEPT !.pc = "case_next", !.order = f])
    /\ UNCHANGED <<lit_case, lit_supported, rule_supported>>

\* Case.is_supported: the next rule of the loop, or the end of the loop
CaseNextRule(t) ==
    /\ At(t, "case_next")
    /\ Local(t, IF callers[t].order = <<>>
                THEN [callers[t] EXCEPT !.pc = "case_freeze_clauses"]
                ELSE [callers[t] EXCEPT !.pc = "rule_has",
                                        !.r = Head(callers[t].order),
                                        !.order = Tail(callers[t].order)])
    /\ UNCHANGED <<lit_case, lit_supported, rule_supported>>

\* Rule.is_supported: if hasattr(self, "_supported")
RuleHasSupported(t) ==
    /\ At(t, "rule_has")
    /\ Local(t, [callers[t] EXCEPT !.pc =
                    IF rule_supported[callers[t].r] # "unset"
                    THEN "rule_return" ELSE "rule_iter"])
    /\ UNCHANGED <<lit_case, lit_supported, rule_supported>>

\* Rule.is_supported: supported = True; for l in self.body, the order in
\* which the set will be visited
RuleIterBody(t) ==
    /\ At(t, "rule_iter")
    /\ \E f \in Orders(callers[t].r.body) :
         Local(t, [callers[t] EXCEPT !.pc = "rule_next", !.body = f,
                                     !.rule_supported = "True"])
    /\ UNCHANGED <<lit_case, lit_supported, rule_supported>>

\* Rule.is_supported: the next literal of the body and its property
\* is_supported, or the end of the loop
RuleNextLiteral(t) ==
    /\ At(t, "rule_next")
    /\ Local(t, IF callers[t].body = <<>>
                THEN [callers[t] EXCEPT !.pc = "rule_store"]
                ELSE [callers[t] EXCEPT !.pc = "lit_has",
                                        !.lit = LiteralStr(Head(callers[t].body)),
                                        !.ctx = "body",
                                        !.body = Tail(callers[t].body)])
    /\ UNCHANGED <<lit_case, lit_supported, rule_supported>>

\* Rule.is_supported: if not l.is_supported: supported = False
RuleTestLiteral(t) ==
    /\ At(t, "rule_test")
    /\ Local(t, [callers[t] EXCEPT
                    !.pc = "rule_next", !.val = "none", !.lit = <<>>, !.ctx = "none",
                    !.rule_supported = IF ~Truthy(callers[t].val) THEN "False"
                                       ELSE callers[t].rule_supported])
    /\ UNCHANGED <<lit_case, lit_supported, rule_supported>>

\* Rule.is_supported: self._supported = supported
RuleStoreSupported(t) ==
    /\ At(t, "rule_store")
    /\ Local(t, [callers[t] EXCEPT !.pc = "rule_return", !.rule_supported = "none"])
    /\ rule_supported' = [rule_supported EXCEPT
                            ![callers[t].r] = callers[t].rule_supported]
    /\ UNCHANGED <<lit_case, lit_supported>>

\* Rule.is_supported: return self._supported, to the loop of
\* knowledgebase.Case.is_supported or to that of argumentation.Case.is_entailed
RuleReturnSupported(t) ==
    /\ At(t, "rule_return")
    /\ Local(t, [callers[t] EXCEPT
                    !.pc = IF callers[t].op \in ArgOps THEN "ent_test" ELSE "case_call",
                    !.val = rule_supported[callers[t].r]])
    /\ UNCHANGED <<lit_case, lit_supported, rule_supported>>

\* Case.is_supported: if r.is_supported(), the call of the bool the property
\* returned
CaseCallRule(t) ==
    /\ At(t, "case_call")
    /\ Local(t, Done(callers[t], "none", CallBool(callers[t].val)))
    /\ UNCHANGED <<lit_case, lit_supported, rule_supported>>

\* Case.is_supported: frozenset(self.support_clauses), the right-hand side
CaseFreezeClauses(t) ==
    /\ At(t, "case_freeze_clauses")
    /\ Local(t, [callers[t] EXCEPT
                    !.pc = "case_freeze_rules",
                    !.frozen = <<lit_case[callers[t].k].support_clauses>>])
    /\ UNCHANGED <<lit_case, lit_supported, rule_supported>>

\* Case.is_supported: frozenset(self.support_rules), the right-hand side
CaseFreezeRules(t) ==
    /\ At(t, "case_freeze_rules")
    /\ Local(t, [callers[t] EXCEPT
                    !.pc = "case_assign_clauses",
                    !.frozen = Append(callers[t].frozen,
                                      lit_case[callers[t].k].support_rules)])
    /\ UNCHANGED <<lit_case, lit_supported, rule_supported>>

\* Case.is_supported: self.support_clauses = the first frozenset
CaseAssignClauses(t) ==
    /\ At(t, "case_assign_clauses")
    /\ Local(t, [callers[t] EXCEPT !.pc = "case_assign_rules"])
    /\ lit_case' = [lit_case EXCEPT
                      ![callers[t].k].support_clauses = callers[t].frozen[1]]
    /\ UNCHANGED <<lit_supported, rule_supported>>

\* Case.is_supported: self.support_rules = the second frozenset
CaseAssignRules(t) ==
    /\ At(t, "case_assign_rules")
    /\ Local(t, [callers[t] EXCEPT !.pc = "case_store", !.frozen = <<>>])
    /\ lit_case' = [lit_case EXCEPT
                      ![callers[t].k].support_rules = callers[t].frozen[2]]
    /\ UNCHANGED <<lit_supported, rule_supported>>

\* Case.is_supported: self._supported = supported
CaseStoreSupported(t) ==
    /\ At(t, "case_store")
    /\ Local(t, [callers[t] EXCEPT !.pc = "case_return", !.supported = "none"])
    /\ lit_case' = [lit_case EXCEPT ![callers[t].k].supported = callers[t].supported]
    /\ UNCHANGED <<lit_supported, rule_supported>>

\* Case.is_supported: return self._supported
CaseReturnSupported(t) ==
    /\ At(t, "case_return")
    /\ Local(t, Done(callers[t], lit_case[callers[t].k].supported, "none"))
    /\ UNCHANGED <<lit_case, lit_supported, rule_supported>>

\* ------------------------------ argumentation.Case.is_entailed, by statement
\* Thread t goes on with the local variables c and leaves the shared Case as a.
LocalShared(t, c, a) ==
    /\ callers' = [callers EXCEPT ![t] = c]
    /\ arg_case' = a
    /\ UNCHANGED <<phase, input, literals, clauses, rules, asserting_clauses,
                   asserting_rules, result, second, lit_case, lit_supported,
                   rule_supported, instances>>

\* c = argumentation.Case(l, kb) for a literal of the knowledge base: the one
\* Case object the threads share.
ArgCaseNew ==
    /\ phase = "built"
    /\ ~arg_case.made
    /\ \E k \in DictKeys(literals) :
         arg_case' = [NoArgCase EXCEPT !.made = TRUE, !.k = k]
    /\ UNCHANGED <<phase, input, literals, clauses, rules, asserting_clauses,
                   asserting_rules, lit_case, lit_supported, rule_supported,
                   result, callers, second, instances>>

\* A thread reads c.is_entailed.
CallerStartEntailed(t) ==
    /\ MayCall(t)
    /\ arg_case.made
    /\ LocalShared(t, Enter(t, "ent_has", "c.is_entailed", arg_case.k), arg_case)

\* A thread reads c.supporting_rules.
CallerStartSupportingRules(t) ==
    /\ MayCall(t)
    /\ arg_case.made
    /\ LocalShared(t, Enter(t, "sr_has", "c.supporting_rules", arg_case.k),
                   arg_case)

\* Case.supporting_rules: if not hasattr(self, "_supporting_rules"):
\* self.is_entailed
SupportingRulesHas(t) ==
    /\ At(t, "sr_has")
    /\ LocalShared(t, [callers[t] EXCEPT !.pc =
                          IF arg_case.kind # "unset" THEN "sr_return" ELSE "ent_has"],
                   arg_case)

\* Case.is_entailed: if not hasattr(self, "_entailed")
EntailedHas(t) ==
    /\ At(t, "ent_has")
    /\ LocalShared(t, [callers[t] EXCEPT !.pc =
                          IF arg_case.entailed # "unset" THEN "ent_return"
                          ELSE "ent_reset"],
                   arg_case)

\* Case.is_entailed: entailed = False; self._supporting_rules = set(), a new
\* set object, named by the thread and the call that made it
EntailedResetRules(t) ==
    /\ At(t, "ent_reset")
    /\ LET id == <<t, callers[t].calls>> IN
       LocalShared(t, [callers[t] EXCEPT !.pc = "ent_iter", !.supported = "False"],
                   [arg_case EXCEPT !.kind = "set", !.obj = id,
                                    !.sets = (id :> {}) @@ arg_case.sets,
                                    !.supporting_rules = {}])

\* Case.is_entailed: for r in self.asserting_rules, the order in which the
\* frozenset will be visited
EntailedIterRules(t) ==
    /\ At(t, "ent_iter")
    /\ \E f \in Orders(DictGet(asserting_rules, arg_case.k)) :
         LocalShared(t, [callers[t] EXCEPT !.pc = "ent_next", !.order = f], arg_case)

\* Case.is_entailed: the next rule of the loop and its property is_supported,
\* or the end of the loop
EntailedNextRule(t) ==
    /\ At(t, "ent_next")
    /\ LocalShared(t, IF callers[t].order = <<>>
                      THEN [callers[t] EXCEPT !.pc = "ent_freeze", !.r = "none"]
                      ELSE [callers[t] EXCEPT !.pc = "rule_has",
                                              !.r = Head(callers[t].order),
                                              !.order = Tail(callers[t].order)],
                   arg_case)

\* Case.is_entailed: if r.is_supported: entailed = True
EntailedTestRule(t) ==
    /\ At(t, "ent_test")
    /\ LocalShared(t, IF Truthy(callers[t].val)
                      THEN [callers[t] EXCEPT !.pc = "ent_add", !.val = "none",
                                              !.supported = "True"]
                      ELSE [callers[t] EXCEPT !.pc = "ent_next", !.val = "none"],
                   arg_case)

\* The object self._supporting_rules holds now, as a thread loads it: a set
\* by its name, a frozenset by its members.
LoadRules(a) ==
    IF a.kind = "set" THEN <<"set", a.obj>> ELSE <<a.kind, a.supporting_rules>>

\* The members of a loaded object now.
MembersOf(a, loaded) == IF loaded[1] = "set" THEN a.sets[loaded[2]] ELSE loaded[2]

\* set.add(r) on the set object id: the attribute shows r only while it holds
\* that set.
SetAdd(a, id, r) ==
    [a EXCEPT !.sets = [x \in DOMAIN a.sets |->
                           IF x = id THEN a.sets[x] \cup {r} ELSE a.sets[x]],
              !.supporting_rules = IF a.kind = "set" /\ a.obj = id
                                   THEN a.supporting_rules \cup {r}
                                   ELSE a.supporting_rules]

\* Case.is_entailed: self._supporting_rules.add(r), the load of the attribute
EntailedLoadRules(t) ==
    /\ At(t, "ent_add")
    /\ LocalShared(t, [callers[t] EXCEPT !.pc = "ent_add_method",
                                         !.loaded = LoadRules(arg_case)],
                   arg_case)

\* Case.is_entailed: self._supporting_rules.add(r), the look-up of add on the
\* loaded object: a frozenset has no add.
EntailedAddMethod(t) ==
    /\ At(t, "ent_add_method")
    /\ LocalShared(t, IF callers[t].loaded[1] # "set"
                      THEN Done(callers[t], "none", "AttributeError")
                      ELSE [callers[t] EXCEPT !.pc = "ent_add_call"],
                   arg_case)

\* Case.is_entailed: self._supporting_rules.add(r), the call, on the set that
\* was loaded, whatever the attribute holds now
EntailedAddRule(t) ==
    /\ At(t, "ent_add_call")
    /\ LocalShared(t, [callers[t] EXCEPT !.pc = "ent_next", !.loaded = <<>>],
                   SetAdd(arg_case, callers[t].loaded[2], callers[t].r))

\* Case.is_entailed: frozenset(self._supporting_rules), the load of the
\* attribute
EntailedFreezeLoad(t) ==
    /\ At(t, "ent_freeze")
    /\ LocalShared(t, [callers[t] EXCEPT !.pc = "ent_freeze_call",
                                         !.loaded = LoadRules(arg_case)],
                   arg_case)

\* Case.is_entailed: frozenset(self._supporting_rules), the call, on the
\* object that was loaded with the members it has now
EntailedFreezeRules(t) ==
    /\ At(t, "ent_freeze_call")
    /\ LocalShared(t, [callers[t] EXCEPT
                          !.pc = "ent_assign", !.loaded = <<>>,
                          !.frozen = <<MembersOf(arg_case, callers[t].loaded)>>],
                   arg_case)

\* Case.is_entailed: self._supporting_rules = the frozenset
EntailedAssignRules(t) ==
    /\ At(t, "ent_assign")
    /\ LocalShared(t, [callers[t] EXCEPT !.pc = "ent_store", !.frozen = <<>>],
                   [arg_case EXCEPT !.kind = "frozenset", !.obj = <<>>,
                                    !.supporting_rules = callers[t].frozen[1]])

\* Case.is_entailed: self._entailed = entailed
EntailedStore(t) ==
    /\ At(t, "ent_store")
    /\ LocalShared(t, [callers[t] EXCEPT !.pc = "ent_return", !.supported = "none"],
                   [arg_case EXCEPT !.entailed = callers[t].supported])

\* Case.is_entailed: return self._entailed, to the caller or to
\* Case.supporting_rules, which drops the value
EntailedReturn(t) ==
    /\ At(t, "ent_return")
    /\ LocalShared(t, IF callers[t].op = "c.supporting_rules"
                      THEN [callers[t] EXCEPT !.pc = "sr_return"]
                      ELSE Done(callers[t], arg_case.entailed, "none"),
                   arg_case)

\* Case.supporting_rules: return self._supporting_rules, the object the
\* attribute holds now
SupportingRulesReturn(t) ==
    /\ At(t, "sr_return")
    /\ LocalShared(t, [Done(callers[t], arg_case.kind, "none") EXCEPT
                          !.rules = arg_case.supporting_rules],
                   arg_case)

NextThreads ==
    \/ ConstructCore
    \/ ArgCaseNew
    \/ \E t \in Callers : CallerStartEntailed(t)
    \/ \E t \in Callers : CallerStartSupportingRules(t)
    \/ \E t \in Callers : SupportingRulesHas(t)
    \/ \E t \in Callers : EntailedHas(t)
    \/ \E t \in Callers : EntailedResetRules(t)
    \/ \E t \in Callers : EntailedIterRules(t)
    \/ \E t \in Callers : EntailedNextRule(t)
    \/ \E t \in Callers : EntailedTestRule(t)
    \/ \E t \in Callers : EntailedLoadRules(t)
    \/ \E t \in Callers : EntailedAddMethod(t)
    \/ \E t \in Callers : EntailedAddRule(t)
    \/ \E t \in Callers : EntailedFreezeLoad(t)
    \/ \E t \in Callers : EntailedFreezeRules(t)
    \/ \E t \in Callers : EntailedAssignRules(t)
    \/ \E t \in Callers : EntailedStore(t)
    \/ \E t \in Callers : EntailedReturn(t)
    \/ \E t \in Callers : SupportingRulesReturn(t)
    \/ \E t \in Callers : CallerStart(t)
    \/ \E t \in Callers : CallerStartCase(t)
    \/ \E t \in Callers : LiteralHasSupported(t)
    \/ \E t \in Callers : LiteralStoreSupported(t)
    \/ \E t \in Callers : LiteralReturnSupported(t)
    \/ \E t \in Callers : CallSupported(t)
    \/ \E t \in Callers : CaseHasSupported(t)
    \/ \E t \in Callers : CaseStoreClauses(t)
    \/ \E t \in Callers : CaseLenClauses(t)
    \/ \E t \in Callers : CaseResetRules(t)
    \/ \E t \in Callers : CaseIterRules(t)
    \/ \E t \in Callers : CaseNextRule(t)
    \/ \E t \in Callers : RuleHasSupported(t)
    \/ \E t \in Callers : RuleIterBody(t)
    \/ \E t \in Callers : RuleNextLiteral(t)
    \/ \E t \in Callers : RuleTestLiteral(t)
    \/ \E t \in Callers : RuleStoreSupported(t)
    \/ \E t \in Callers : RuleReturnSupported(t)
    \/ \E t \in Callers : CaseCallRule(t)
    \/ \E t \in Callers : CaseFreezeClauses(t)
    \/ \E t \in Callers : CaseFreezeRules(t)
    \/ \E t \in Callers : CaseAssignClauses(t)
    \/ \E t \in Callers : CaseAssignRules(t)
    \/ \E t \in Callers : CaseStoreSupported(t)
    \/ \E t \in Callers : CaseReturnSupported(t)

SpecThreads == Init /\ [][NextThreads]_vars

\* --------------------------------------------- logic.py, values and texts
\* The atoms of the values: two of the demonstration and one with every kind
\* of character an atom is made of.
LogicAtoms == {<<"a">>, <<"b">>, <<"a", "_", "1">>}

LogicLiterals == {Literal(x, p) : x \in LogicAtoms, p \in BOOLEAN}

\* The non-empty sets of at most MaxLiterals literals.
LiteralSets ==
    {S \in SUBSET LogicLiterals : Cardinality(S) \in 1..MaxLiterals}

\* The Clause and Rule values over them.
LogicValues ==
    {Clause(S) : S \in LiteralSets}
        \cup {Rule(h, B) : h \in LogicLiterals, B \in LiteralSets}

\* str(x) for a Clause or a Rule: every text it can be
Strs(x) == IF x.kind = "Clause" THEN {ClauseStr(x)} ELSE RuleStrs(x)

\* The arguments of is_negation_of: Literals, and objects of other classes.
OtherObjects ==
    {Object("Literal", l) : l \in LogicLiterals}
        \cup {Object("Clause", Clause({La})), Object("Rule", Rule(La, {Lb})),
              Object("str", <<"a">>), Object("NoneType", <<>>)}

\* The caller has a Clause or a Rule x, or a Literal x and an object y, and no
\* knowledge base.
InitLogic ==
    /\ phase = "new"
    /\ input \in {[kind |-> "value", arg |-> x] : x \in LogicValues}
                   \cup {[kind |-> "pair", arg |-> <<x, y>>] :
                            x \in LogicLiterals, y \in OtherObjects}
    /\ literals = <<>>
    /\ clauses = {}
    /\ rules = {}
    /\ asserting_clauses = <<>>
    /\ asserting_rules = <<>>
    /\ lit_case = <<>>
    /\ lit_supported = <<>>
    /\ rule_supported = <<>>
    /\ result = NoResult
    /\ callers = [t \in Callers |-> Idle]
    /\ second = NoSecond
    /\ arg_case = NoArgCase
    /\ instances = [registered |-> <<>>, held |-> {}]

\* PrologString(str(x)).contents for a Clause or a Rule x
StrThenParse ==
    /\ input.kind = "value"
    /\ result.op = "none"
    /\ \E text \in Strs(input.arg) :
         LET ps == PrologString(text) IN
         result' = [op |-> "PrologString(str(x))", arg |-> text,
                    value |-> ps.contents, err |-> ps.err]
    /\ UNCHANGED <<phase, input, literals, clauses, rules, asserting_clauses,
                   asserting_rules, lit_case, lit_supported, rule_supported,
                   callers, second, arg_case, instances>>

\* x.is_negation_of(y)
NegationOf ==
    /\ input.kind = "pair"
    /\ result.op = "none"
    /\ LET o == IsNegationOf(input.arg[1], input.arg[2]) IN
       result' = [op |-> "x.is_negation_of(y)", arg |-> <<>>,
                  value |-> o.value, err |-> o.err]
    /\ UNCHANGED <<phase, input, literals, clauses, rules, asserting_clauses,
                   asserting_rules, lit_case, lit_supported, rule_supported,
                   callers, second, arg_case, instances>>

NextLogic == StrThenParse \/ NegationOf

SpecLogic == InitLogic /\ [][NextLogic]_vars

\* ------------------------------------- Literal objects and knowledge bases
\* The Literal the caller has constructed and given to no knowledge base.
FreshLiteral == Literal(<<"x">>, TRUE)

\* The value of the Literal object id.
LiteralOf(id) == IF id = FreshId THEN FreshLiteral ELSE DictGet(literals, id)

\* The operations of the caller on the objects leave the knowledge base alone.
ObjectsOnly ==
    UNCHANGED <<phase, input, literals, clauses, rules, asserting_clauses,
                asserting_rules, lit_supported, rule_supported, callers,
                arg_case, instances>>

\* l.case = Case(l, other) by the caller, for a literal of the knowledge base
\* or for the caller's own
AssignCase ==
    /\ \E id \in DictKeys(literals) \cup {FreshId} :
         LET o == LiteralSetCase(lit_case, id, Case(LiteralOf(id), "other")) IN
         /\ lit_case' = o.lit_case
         /\ result' = [op |-> "l.case = c", arg |-> id, value |-> "none",
                       err |-> o.err]
    /\ UNCHANGED second
    /\ ObjectsOnly

\* l.case read by the caller; the Case it gets is named by its kb
ReadCase ==
    /\ \E id \in DictKeys(literals) \cup {FreshId} :
         LET o == LiteralCase(lit_case, id) IN
         result' = [op |-> "l.case", arg |-> id,
                    value |-> IF o.err = "none" THEN o.value.kb ELSE "none",
                    err |-> o.err]
    /\ UNCHANGED <<lit_case, second>>
    /\ ObjectsOnly

\* The id of a Literal object constructed for the second knowledge base.
NewId(k) == <<"new">> \o k

\* The clauses a second knowledge base is made of: clauses of the first and a
\* clause over a literal of its own, at most MaxSecond of them.
SecondInputs ==
    LET pool == clauses \cup {Clause({Lc})} IN
    UNION {{f \in [1..n -> pool] : \A i, j \in 1..n : i # j => f[i] # f[j]}
           : n \in 1..MaxSecond}

\* KnowledgeBase(*contents) while the first knowledge base exists. With reuse
\* the contents are the first one's Clause objects, so their literals are its
\* canonical Literal objects; without, they are equal values constructed
\* anew. A literal the first knowledge base does not have is a new object.
ConstructSecond ==
    /\ phase = "built"
    /\ second.phase = "new"
    /\ \E contents \in SecondInputs : \E reuse \in BOOLEAN :
       \E out \in FromValues(<<>>, contents, {}) :
         LET ids == [i \in DOMAIN out.literals |->
                        IF reuse /\ DictHas(literals, out.literals[i].key)
                        THEN out.literals[i].key
                        ELSE NewId(out.literals[i].key)]
             o == IF out.err # "none" THEN [lit_case |-> lit_case, err |-> out.err]
                  ELSE GenerateCasesFrom(lit_case, ValuesInOrder(out.literals),
                                         ids, "KB2")
         IN /\ lit_case' = o.lit_case
            /\ second' = [phase |-> IF o.err = "none" THEN "built" ELSE "failed",
                          reuse |-> reuse, contents |-> contents,
                          literals |-> out.literals, ids |-> ids,
                          clauses |-> out.clauses]
            /\ result' = [op |-> "KnowledgeBase (second)", arg |-> <<>>,
                          value |-> IF o.err = "none" THEN "KB2" ELSE "none",
                          err |-> o.err]
    /\ ObjectsOnly

NextObjects ==
    \/ ConstructCore
    \/ QueryLiteralCall
    \/ QueryCaseCall
    \/ AssignCase
    \/ ReadCase
    \/ ConstructSecond

SpecObjects == Init /\ [][NextObjects]_vars

\* ------------------------------------------------- argumentation.py, Case
\* Case.__init__: the two lookups by str(claim); KeyError for a literal the
\* knowledge base does not have.
ArgCase(k) ==
    IF ~DictHas(asserting_clauses, k)
    THEN [asserting_clauses |-> {}, asserting_rules |-> {}, err |-> "KeyError"]
    ELSE [asserting_clauses |-> DictGet(asserting_clauses, k),
          asserting_rules |-> DictGet(asserting_rules, k), err |-> "none"]

\* Case.is_contained (a property)
IsContained(c) == IF Cardinality(c.asserting_clauses) # 0 THEN "True" ELSE "False"

RECURSIVE EntailedLoop(_, _, _, _)
\* Case.is_entailed, the loop over self.asserting_rules: every rule is
\* examined, and r.is_supported is read as the property it is.
EntailedLoop(h, order, entailed, supporting_rules) ==
    IF order = <<>>
    THEN {[h |-> h, value |-> entailed, supporting_rules |-> supporting_rules,
           err |-> "none"]}
    ELSE UNION {IF o.err # "none"
                THEN {[h |-> o.h, value |-> "none",
                       supporting_rules |-> supporting_rules, err |-> o.err]}
                ELSE IF Truthy(o.value)
                THEN EntailedLoop(o.h, Tail(order), "True",
                                  supporting_rules \cup {Head(order)})
                ELSE EntailedLoop(o.h, Tail(order), entailed, supporting_rules)
                : o \in RuleIsSupported(h, Head(order))}

\* Case.is_entailed (a property) of a Case just constructed
IsEntailed(h, c) ==
    UNION {EntailedLoop(h, f, "False", {}) : f \in Orders(c.asserting_rules)}

\* What a property of a new Case(l, kb) gives the caller, and the attributes
\* of the rules and literals that is_entailed wrote.
ArgFinish(op, k, h, value, err) ==
    /\ lit_case' = h.lit_case
    /\ lit_supported' = h.lit_supported
    /\ rule_supported' = h.rule_supported
    /\ result' = [op |-> op, arg |-> k, value |-> value, err |-> err]
    /\ UNCHANGED <<phase, input, literals, clauses, rules, asserting_clauses,
                   asserting_rules, callers, second, arg_case,
                   instances>>

\* Case(l, kb).is_contained for a literal of the knowledge base or for the
\* caller's own literal
ArgCaseIsContained ==
    /\ phase = "built"
    /\ \E k \in DictKeys(literals) \cup {LiteralStr(FreshLiteral)} :
         LET c == ArgCase(k) IN
         ArgFinish("Case(l, kb).is_contained", k, Heap,
                   IF c.err # "none" THEN "none" ELSE IsContained(c), c.err)

\* Case(l, kb).is_entailed for a literal of the knowledge base
ArgCaseIsEntailed ==
    /\ phase = "built"
    /\ \E k \in DictKeys(literals) :
         \E o \in IsEntailed(Heap, ArgCase(k)) :
            ArgFinish("Case(l, kb).is_entailed", k, o.h, o.value, o.err)

\* Case(l, kb).supporting_rules for a literal of the knowledge base: the
\* property evaluates is_entailed and returns self._supporting_rules
ArgCaseSupportingRules ==
    /\ phase = "built"
    /\ \E k \in DictKeys(literals) :
         \E o \in IsEntailed(Heap, ArgCase(k)) :
            ArgFinish("Case(l, kb).supporting_rules", k, o.h,
                      o.supporting_rules, o.err)

NextArgumentation ==
    \/ ConstructCore
    \/ QueryLiteralCall
    \/ QueryCaseCall
    \/ ArgCaseIsContained
    \/ ArgCaseIsEntailed
    \/ ArgCaseSupportingRules

SpecArgumentation == Init /\ [][NextArgumentation]_vars

\* ------------------------------------------------- the meaning of "supported"
\* The definitions the code is to compute (logic.py, the module docstring):
\* a literal is supported iff a clause contains it or a supported rule has it
\* as head; a rule is supported iff every literal of its body is supported.
DeriveStep(S) == S \cup {r.head : r \in {x \in rules : x.body \subseteq S}}

RECURSIVE DeriveFrom(_)
DeriveFrom(S) == IF DeriveStep(S) = S THEN S ELSE DeriveFrom(DeriveStep(S))

\* The least set of literals closed under the clauses and the rules.
SupportedLiterals == DeriveFrom(UNION {c.literals : c \in clauses})

\* The literals a set of literals depends on through the rules, one step.
DependStep(S) == S \cup UNION {r.body : r \in {x \in rules : x.head \in S}}

RECURSIVE DependFrom(_)
DependFrom(S) == IF DependStep(S) = S THEN S ELSE DependFrom(DependStep(S))

\* The literals the body of rule r depends on, the body included.
DependsOn(r) == DependFrom(r.body)

\* No rule's head depends on itself.
Acyclic == \A r \in rules : r.head \notin DependsOn(r)

\* Rule r with one CCoSE per antecedent: ch chooses a CCoSE for each literal
\* of the body.
Combine(r, ch) == {r} \cup UNION {ch[b] : b \in r.body}

RECURSIVE SemCases(_, _)
\* The CCoSEs of literal l by the definition: {C} for each clause C that
\* contains l, and {R} with one CCoSE per antecedent for each supported rule R
\* with head l. depth bounds the recursion by the number of rules.
SemCases(l, depth) ==
    {{c} : c \in {x \in clauses : l \in x.literals}}
    \cup (IF depth = 0 THEN {}
          ELSE UNION {LET sub == [b \in r.body |-> SemCases(b, depth - 1)] IN
                      {Combine(r, ch) :
                         ch \in {f \in [r.body -> UNION {sub[b] : b \in r.body}] :
                                    \A b \in r.body : f[b] \in sub[b]}}
                      : r \in {x \in rules : x.head = l
                                             /\ x.body \subseteq SupportedLiterals}})

RECURSIVE CaseCases(_, _)
\* The CCoSEs the Case objects hold after their evaluation: {C} for each of
\* the case's support_clauses, and {R} with one CCoSE per antecedent for each
\* of its support_rules.
CaseCases(k, depth) ==
    {{c} : c \in lit_case[k].support_clauses}
    \cup (IF depth = 0 THEN {}
          ELSE UNION {LET sub == [b \in r.body |-> CaseCases(LiteralStr(b), depth - 1)] IN
                      {Combine(r, ch) :
                         ch \in {f \in [r.body -> UNION {sub[b] : b \in r.body}] :
                                    \A b \in r.body : f[b] \in sub[b]}}
                      : r \in lit_case[k].support_rules})

\* A knowledge base as the specification admits it: no dependency cycle, no
\* rule without antecedents, no clause without literals.
WellFormed ==
    /\ phase = "built"
    /\ Acyclic
    /\ \A r \in rules : r.body # {}
    /\ \A c \in clauses : c.literals # {}

\* casesFor(l) for the literal under key k
CasesFor(k) == CaseCases(k, Cardinality(rules))

\* argumentsFor(l): one (support, claim) pair per CCoSE of the case
ArgumentsFor(k) ==
    {[support |-> s, claim |-> lit_case[k].claim] : s \in CasesFor(k)}

\* ------------------------------------------------------------------ claims
\* The demonstration of knowledgebase.py: "beta. alpha, beta. beta:- alpha.
\* gamma:- beta." (a for alpha, b for beta, c for gamma).
DemoText == TextOf(<<1, 2, 3, 4>>)

IsDemo == phase = "built" /\ input.kind = "text" /\ input.arg = DemoText

\* The last operation asked whether a literal of the knowledge base is
\* supported, by the property or by the call.
AskedLiteral == result.op \in {"l.is_supported", "l.is_supported()"}

AskedLiteralValue == DictGet(literals, result.arg)

\* C1: once supportedness is evaluated, isSupported(L) is true exactly when a
\* clause contains L or a supported rule has head L, and isSupported(R) is
\* true exactly when every literal of R's body is supported; in the
\* demonstration alpha, beta and gamma are all supported.
C1_SupportedIsLeastFixpoint ==
    /\ \A r \in DOMAIN rule_supported :
          rule_supported[r] # "unset" =>
             (rule_supported[r] = "True" <=> r.body \subseteq SupportedLiterals)
    /\ AskedLiteral =>
          /\ result.err = "none"
          /\ Truthy(result.value) <=> AskedLiteralValue \in SupportedLiterals
    /\ (IsDemo /\ result.op = "populate") =>
          \A k \in DictKeys(literals) : lit_case[k].supported = "True"

\* C2: constructing a knowledge base whose rule-dependency graph has a cycle
\* fails, so every knowledge base that construction returns is acyclic.
C2_BuiltIsAcyclic == phase = "built" => Acyclic

\* C3: evaluating the supportedness of every literal (populate, or any
\* isSupported query) returns without raising, and populate leaves every
\* literal and rule with a determined value.
C3_EvaluationCompletes ==
    /\ result.op \in {"populate", "l.is_supported()", "l.is_supported", "r.is_supported"}
          => result.err = "none"
    /\ result.op = "populate" =>
          /\ \A k \in DictKeys(literals) : lit_case[k].supported \in {"True", "False"}
          /\ \A r \in rules : rule_supported[r] \in {"True", "False"}

\* C4: for every clause C of the knowledge base and every literal L of C,
\* isSupported(L) is true and casesFor(L) contains the CCoSE {C}.
C4_ClauseSupportsItsLiterals ==
    \A c \in clauses : \A l \in c.literals :
       (result.op = "l.is_supported()" /\ result.arg = LiteralStr(l)) =>
          /\ result.err = "none"
          /\ result.value = "True"
          /\ {c} \in CasesFor(LiteralStr(l))

\* C5: for every rule R whose body literals are all supported, isSupported of
\* R's head is true, and casesFor of the head contains {R} united with every
\* choice of one CCoSE per body literal.
C5_SupportedRuleSupportsHead ==
    \A r \in rules :
       (/\ r.body # {}
        /\ r.body \subseteq SupportedLiterals
        /\ result.op = "l.is_supported()"
        /\ result.arg = LiteralStr(r.head)) =>
          /\ result.err = "none"
          /\ result.value = "True"
          /\ LET sub == [b \in r.body |-> CasesFor(LiteralStr(b))] IN
             \A ch \in {f \in [r.body -> UNION {sub[b] : b \in r.body}] :
                           \A b \in r.body : f[b] \in sub[b]} :
                Combine(r, ch) \in CasesFor(LiteralStr(r.head))

\* C6: casesFor(L) is exactly the clause contributions and the contributions
\* of the supported rules with head L; in the demonstration casesFor(beta) is
\* the three CCoSEs {"beta."}, {"alpha, beta."}, {"beta:- alpha.", "alpha,
\* beta."}.
C6_CasesAreTheContributions ==
    (WellFormed /\ result.op = "populate") =>
        /\ \A k \in DictKeys(literals) :
              CasesFor(k) = SemCases(DictGet(literals, k), Cardinality(rules))
        /\ IsDemo =>
              CasesFor(<<"b">>) = {{Clause({Lb})}, {Clause({La, Lb})},
                                   {Rule(Lb, {La}), Clause({La, Lb})}}

\* C7: argumentsFor(L) yields one Argument per CCoSE of casesFor(L), with
\* that CCoSE as support and L as claim; in the demonstration
\* argumentsFor(gamma) yields exactly 3 Arguments, all with claim gamma.
C7_OneArgumentPerCase ==
    (WellFormed /\ result.op = "populate") =>
        /\ \A k \in DictKeys(literals) :
              ArgumentsFor(k) =
                 {[support |-> s, claim |-> DictGet(literals, k)] :
                     s \in SemCases(DictGet(literals, k), Cardinality(rules))}
        /\ IsDemo =>
              /\ Cardinality(ArgumentsFor(<<"c">>)) = 3
              /\ \A a \in ArgumentsFor(<<"c">>) : a.claim = Lc

\* The Rule values of an input of values.
InputRules ==
    IF input.kind = "values"
    THEN {input.arg[i] : i \in {j \in DOMAIN input.arg : input.arg[j].kind = "Rule"}}
    ELSE {}

InputClauses ==
    IF input.kind = "values"
    THEN {input.arg[i] : i \in {j \in DOMAIN input.arg : input.arg[j].kind = "Clause"}}
    ELSE {}

\* C8: constructing a Rule with an empty body, directly or by parsing
\* "head :- .", fails with MalformedRuleError; no rule with an empty body
\* exists, so none is in a knowledge base.
C8_NoRuleWithEmptyBody ==
    /\ \A r \in rules : r.body # {}
    /\ (\E r \in InputRules : r.body = {}) => result.err = "MalformedRuleError"

\* C9: isSupported for a literal in no knowledge base fails with the
\* unknown-literal error (AttributeError in logic.py), and for a literal that
\* is known but not derivable it returns false and never raises.
C9_UnknownRaisesUnderivableIsFalse ==
    /\ result.op = "Literal().is_supported" => result.err = "AttributeError"
    /\ (AskedLiteral /\ AskedLiteralValue \notin SupportedLiterals) =>
          /\ result.err = "none"
          /\ result.value = "False"

\* C10: constructing a knowledge base from Clause and Rule values succeeds,
\* and its clauses and rules are value-equal to the input's.
C10_FromValuesKeepsContents ==
    (phase # "new" /\ input.kind = "values") =>
        /\ phase = "built"
        /\ clauses = InputClauses
        /\ rules = InputRules

\* The object o is the very object the registry holds under str(o).
IsCanonical(o) ==
    /\ DictHas(instances.registered, LiteralStr(o))
    /\ DictGet(instances.registered, LiteralStr(o)) = o

\* The literals the caller gave the constructor: those of the values, or those
\* the text was parsed into.
GivenLiterals ==
    IF input.kind = "values"
    THEN UNION {LiteralsOf(input.arg[i]) : i \in DOMAIN input.arg}
    ELSE UNION {LiteralsOf(c) : c \in clauses \cup rules}

\* C11: after construction from a text or from values, every literal of every
\* clause, rule head and rule body is held as the very object the registry
\* holds under its key; the registry holds one object per (atom, polarity),
\* under the key that is its str(); and two literals given to the constructor
\* come to the same registry entry only if they have the same atom and the same
\* polarity, the entry being a literal with that atom and polarity.
C11_CanonicalLiterals ==
    phase = "built" =>
        /\ \A c \in clauses \cup rules : \A l \in LiteralsOf(c) :
              \E h \in instances.held : h.holder = c /\ ValueOf(h.object) = l
        /\ \A h \in instances.held :
              /\ h.holder \in clauses \cup rules
              /\ ValueOf(h.object) \in LiteralsOf(h.holder)
              /\ IsCanonical(h.object)
        /\ DOMAIN instances.registered = DOMAIN literals
        /\ \A i \in DOMAIN literals :
              /\ literals[i].key = instances.registered[i].key
              /\ literals[i].value = ValueOf(instances.registered[i].value)
              /\ literals[i].key = LiteralStr(literals[i].value)
        /\ \A i, j \in DOMAIN literals :
              (i # j) => /\ literals[i].value # literals[j].value
                         /\ literals[i].key # literals[j].key
        /\ \A l1, l2 \in GivenLiterals :
              LiteralStr(l1) = LiteralStr(l2) => l1 = l2
        /\ \A l \in GivenLiterals :
              DictHas(literals, LiteralStr(l)) /\ DictGet(literals, LiteralStr(l)) = l

\* C12: after construction both indices have an entry for every canonical
\* literal; the entry of L in the clause index is exactly the clauses of the
\* knowledge base that contain L, and in the rule index exactly the rules
\* whose head is L, so a lookup by a canonical literal never fails.
C12_IndicesAreExact ==
    phase = "built" =>
        /\ DictKeys(asserting_clauses) = DictKeys(literals)
        /\ DictKeys(asserting_rules) = DictKeys(literals)
        /\ Len(asserting_clauses) = Len(literals)
        /\ Len(asserting_rules) = Len(literals)
        /\ \A i \in DOMAIN literals :
              LET k == LiteralStr(literals[i].value)
                  l == literals[i].value
              IN /\ DictHas(asserting_clauses, k)
                 /\ DictHas(asserting_rules, k)
                 /\ DictGet(asserting_clauses, k) = {c \in clauses : l \in c.literals}
                 /\ DictGet(asserting_rules, k) = {r \in rules : r.head = l}

\* The demonstration: b is in two clauses and heads a rule, c is in no clause
\* and heads a rule, a is in a clause and heads no rule.
C12_Witness ==
    /\ IsDemo
    /\ Cardinality(DictGet(asserting_clauses, <<"b">>)) = 2
    /\ Cardinality(DictGet(asserting_rules, <<"b">>)) = 1
    /\ DictGet(asserting_clauses, <<"c">>) = {}
    /\ Cardinality(DictGet(asserting_rules, <<"c">>)) = 1
    /\ DictGet(asserting_rules, <<"a">>) = {}

\* The attributes of a knowledge base on which nothing was asked yet (the
\* cases as an enumerated function, as the variable lit_case holds them).
FreshHeap ==
    [lit_case |-> GenerateSupportingCases(<<>>, literals) @@ <<>>,
     lit_supported |-> [k \in DictKeys(literals) |-> "unset"],
     rule_supported |-> [r \in rules |-> "unset"]]

\* What the first l.is_supported, l.is_supported(), l.case.is_supported() or
\* r.is_supported on the knowledge base gives the caller.
FirstAnswers(op, arg) ==
    LET outcomes == IF op = "l.is_supported" THEN {LiteralIsSupported(FreshHeap, arg)}
                    ELSE IF op = "l.is_supported()"
                    THEN LiteralIsSupportedCall(FreshHeap, arg)
                    ELSE IF op = "l.case.is_supported()"
                    THEN CaseIsSupported(FreshHeap, arg)
                    ELSE RuleIsSupported(FreshHeap, arg)
    IN {[value |-> o.value, err |-> o.err] : o \in outcomes}

\* C13: once the supportedness of a literal, a case or a rule is cached it is
\* never changed, and every is_supported call on a literal or a rule gives
\* the answer the first such call on the knowledge base gives, whatever was
\* queried before it.
C13_SupportednessIsStable ==
    [][phase = "built" =>
         /\ \A k \in DictKeys(literals) :
               /\ lit_supported[k] # "unset" => lit_supported'[k] = lit_supported[k]
               /\ lit_case[k].supported # "unset" =>
                     lit_case'[k].supported = lit_case[k].supported
         /\ \A r \in rules :
               rule_supported[r] # "unset" => rule_supported'[r] = rule_supported[r]
         /\ result'.op \in {"l.is_supported", "l.is_supported()",
                           "l.case.is_supported()", "r.is_supported"} =>
               FirstAnswers(result'.op, result'.arg) =
                  {[value |-> result'.value, err |-> result'.err]}
    ]_vars

\* The case of b is evaluated and cached, a rule is cached, and b is asked
\* again, by the property, after another literal was evaluated too.
C13_Witness ==
    /\ phase = "built"
    /\ DictHas(literals, <<"a">>) /\ DictHas(literals, <<"b">>)
    /\ lit_case[<<"b">>].supported = "True"
    /\ lit_case[<<"a">>].supported = "True"
    /\ \E r \in rules : rule_supported[r] = "True"
    /\ result.op = "l.is_supported"
    /\ result.arg = <<"b">>
    /\ result.value = "bound_method"

\* The case of literal k as a call of l.is_supported() that runs alone on the
\* just-built knowledge base leaves it.
CasesAlone(k) == {o.h.lit_case[k] : o \in LiteralIsSupportedCall(FreshHeap, k)}

\* What a call gives a caller that runs alone on the just-built knowledge
\* base, for c.is_entailed and c.supporting_rules on a Case just constructed:
\* the value, or for c.supporting_rules the kind of set and its rules.
AnswersAlone(op, k) ==
    IF op = "c.is_entailed"
    THEN {[value |-> o.value, err |-> o.err, rules |-> {}]
          : o \in IsEntailed(FreshHeap, ArgCase(k))}
    ELSE IF op = "c.supporting_rules"
    THEN {IF o.err # "none" THEN [value |-> "none", err |-> o.err, rules |-> {}]
          ELSE [value |-> "frozenset", err |-> "none", rules |-> o.supporting_rules]
          : o \in IsEntailed(FreshHeap, ArgCase(k))}
    ELSE {[value |-> a.value, err |-> a.err, rules |-> {}] : a \in FirstAnswers(op, k)}

\* C14: threads may query the knowledge base without synchronisation
\* (l.is_supported(), l.case.is_supported(), and c.is_entailed and
\* c.supporting_rules of a Case they share): every call that has ended gave
\* the answer it gives when it runs alone, so no caller was given a partly
\* built support set; the support sets of a knowledgebase.Case are empty or
\* complete, and complete once its flag is set; and once the flag _entailed of
\* the shared Case is set, it is the answer of a call alone and
\* _supporting_rules is the complete frozenset.
C14_ConcurrentQueriesAgree ==
    phase = "built" =>
        /\ \A t \in Callers :
              callers[t].pc = "done" =>
                 [value |-> callers[t].value, err |-> callers[t].err,
                  rules |-> callers[t].rules]
                    \in AnswersAlone(callers[t].op, callers[t].k)
        /\ \A k \in DictKeys(literals) :
              LET alone == CasesAlone(k) IN
              /\ lit_case[k].support_clauses
                    \in {{}} \cup {c.support_clauses : c \in alone}
              /\ lit_case[k].support_rules
                    \in {{}} \cup {c.support_rules : c \in alone}
              /\ lit_case[k].supported # "unset" => lit_case[k] \in alone
        /\ (arg_case.made /\ arg_case.entailed # "unset") =>
              [value |-> "frozenset", err |-> "none",
               rules |-> arg_case.supporting_rules]
                 \in AnswersAlone("c.supporting_rules", arg_case.k)
              /\ arg_case.kind = "frozenset"
              /\ [value |-> arg_case.entailed, err |-> "none", rules |-> {}]
                    \in AnswersAlone("c.is_entailed", arg_case.k)

\* C15: printing a Clause or a Rule over well-formed atoms and parsing the
\* text gives exactly one statement, value-equal to the one printed.
C15_StrThenParseIsIdentity ==
    result.op = "PrologString(str(x))" =>
        /\ result.err = "none"
        /\ result.value = {input.arg}

\* A rule with a negative head and a body of a negative literal and a literal
\* over the atom a_1 was printed and parsed back; so was a clause of two.
C15_Witness ==
    /\ result.op = "PrologString(str(x))"
    /\ input.arg = Rule(Literal(<<"b">>, FALSE),
                        {Literal(<<"a">>, FALSE), Literal(<<"a", "_", "1">>, TRUE)})
    /\ result.arg = <<"~", "b", ":", "-", " ", "a", "_", "1", ",", " ", "~", "a", ".">>
    /\ result.value = {input.arg}

\* C16: x.is_negation_of(y) returns True exactly when y is a Literal with
\* x's atom and the opposite polarity, returns False otherwise, also when y is
\* no Literal, and never raises.
C16_NegationIsDecided ==
    result.op = "x.is_negation_of(y)" =>
        LET x == input.arg[1]
            y == input.arg[2]
        IN /\ result.err = "none"
           /\ result.value =
                 IF /\ y.class = "Literal"
                    /\ y.value.atom = x.atom
                    /\ y.value.is_positive # x.is_positive
                 THEN "True" ELSE "False"

\* C17: the first assignment to a Literal's case stores the Case, every later
\* one raises AttributeError and leaves the stored Case in place, reading the
\* case before any assignment raises AttributeError, and after construction
\* every canonical literal l of a knowledge base has a Case with claim l and
\* with that knowledge base as kb.
C17_CaseIsSetOnce ==
    [][/\ \A id \in DOMAIN lit_case :
             /\ id \in DOMAIN lit_case'
             /\ lit_case'[id].claim = lit_case[id].claim
             /\ lit_case'[id].kb = lit_case[id].kb
       /\ result'.op = "l.case = c" =>
             IF result'.arg \in DOMAIN lit_case
             THEN result'.err = "AttributeError" /\ lit_case' = lit_case
             ELSE /\ result'.err = "none"
                  /\ lit_case'[result'.arg] = Case(LiteralOf(result'.arg), "other")
       /\ result'.op = "l.case" =>
             IF result'.arg \in DOMAIN lit_case'
             THEN result'.err = "none" /\ result'.value = lit_case'[result'.arg].kb
             ELSE result'.err = "AttributeError"
       /\ phase' = "built" =>
             \A i \in DOMAIN literals' :
                /\ literals'[i].key \in DOMAIN lit_case'
                /\ lit_case'[literals'[i].key].claim = literals'[i].value
                /\ lit_case'[literals'[i].key].kb = "KB"
       /\ second'.phase = "built" =>
             \A i \in DOMAIN second'.literals :
                /\ second'.ids[i] \in DOMAIN lit_case'
                /\ lit_case'[second'.ids[i]].claim = second'.literals[i].value
                /\ lit_case'[second'.ids[i]].kb = "KB2"
    ]_vars

\* The caller assigned a case to its own literal, then assigned to a literal
\* of the knowledge base, which raised and left the case of the knowledge
\* base in place; a second knowledge base of values constructed anew exists.
C17_Witness ==
    /\ phase = "built"
    /\ FreshId \in DOMAIN lit_case
    /\ lit_case[FreshId].kb = "other"
    /\ result.op = "l.case = c"
    /\ result.arg \in DictKeys(literals)
    /\ result.err = "AttributeError"
    /\ lit_case[result.arg].kb = "KB"
    /\ second.phase = "built"

\* C20: a second knowledge base made of Literal and Clause values that a
\* first one already uses is constructed without an error, and the literals
\* of the first keep their cases, with the first as kb.
C20_SecondKnowledgeBaseIsIsolated ==
    second.phase # "new" =>
        /\ second.phase = "built"
        /\ result.err = "none"
        /\ \A k \in DictKeys(literals) : lit_case[k].kb = "KB"

\* The rules with head l that are supported: every literal of the body is.
SupportedRulesFor(l) ==
    {r \in rules : r.head = l /\ r.body \subseteq SupportedLiterals}

\* C18: after the supportedness of a case is evaluated its supporting clauses
\* are exactly the clauses of the knowledge base that contain the claim, its
\* supporting rules exactly the rules with the claim as head that are
\* supported, every asserting rule having been examined, and the case is
\* supported iff one of the two sets is not empty.
C18_SupportSetsAreExact ==
    /\ result.op = "l.is_supported()" =>
          LET c == lit_case[result.arg] IN
          /\ result.err = "none"
          /\ c.support_clauses = {x \in clauses : c.claim \in x.literals}
          /\ c.support_rules = SupportedRulesFor(c.claim)
          /\ c.supported = "True" <=> (c.support_clauses # {} \/ c.support_rules # {})
    /\ result.op = "Case(l, kb).supporting_rules" =>
          /\ result.err = "none"
          /\ result.value = SupportedRulesFor(DictGet(literals, result.arg))
    /\ result.op = "Case(l, kb).is_entailed" =>
          /\ result.err = "none"
          /\ result.value = "True" <=>
                SupportedRulesFor(DictGet(literals, result.arg)) # {}
    /\ (result.op = "Case(l, kb).is_contained" /\ DictHas(literals, result.arg)) =>
          /\ result.err = "none"
          /\ result.value = "True" <=>
                {x \in clauses : DictGet(literals, result.arg) \in x.literals} # {}

\* The values cached in the attributes h: Literal._supported,
\* Case._supported and Rule._supported, "unset" where nothing is cached.
Cached(h) ==
    [literals |-> [k \in DictKeys(literals) |-> Attr(h.lit_supported, k)],
     cases |-> [k \in DictKeys(literals) |-> h.lit_case[k].supported],
     rules |-> [r \in rules |-> h.rule_supported[r]]]

\* C19: the supported values that are cached for the literals and the rules
\* when populate ends are the same whatever order the literals are visited
\* in and whatever order the sets of rules and bodies are iterated in.
C19_PopulateIsOrderIndependent ==
    [][(phase = "built" /\ result'.op = "populate" /\ Heap = FreshHeap) =>
          \A order \in Orders(DictValues(literals)) :
             \A o \in PopulateFrom(FreshHeap, order) : Cached(o.h) = Cached(Heap')
    ]_vars

====
